---- MODULE Spec2Model ----
(***************************************************************************)
(* Amoro: three independent browser scripts that animate a 2D canvas.      *)
(*                                                                         *)
(*   "fractal"    src/fractal.js            adaptive, throttled scheduler  *)
(*   "psy"        src/unnamed/part_000:1    class PsyVisualizer            *)
(*   "aggressive" src/unnamed/part_000:347  aggressive variant             *)
(*                                                                         *)
(* A page loads one of them; `script` says which.  The scripts that share  *)
(* global names (mouseX, mouseY, time, currentPattern, width, height)      *)
(* share the variables of the model.                                       *)
(*                                                                         *)
(* Number representation (JavaScript doubles are modelled in fixed point): *)
(*   timestamps, lastFrameTime, frameInterval   1/9 ms  (1000/30, 1000/45  *)
(*                                              and 1000/60 ms are exact)  *)
(*   time, lastMoveTime, hueShift, glitchTimer,                            *)
(*   transitionProgress                         1/100                      *)
(*   mouseX, mouseY, pointer                    1/1000                     *)
(*   pixelRatio                                 1/100                      *)
(*   complexity                                 1/10                       *)
(***************************************************************************)
EXTENDS Integers, Sequences, FiniteSets

VARIABLES
    script,          \* which of the three scripts the page runs
    pc,              \* position of the script: "load", "detected", "running", "hung", "halted"
    canvas,          \* document.getElementById('fractalCanvas') finds the element
    placeholder,     \* document.body.innerHTML has been replaced by the error notice
    env,             \* navigator.userAgent tokens, hardwareConcurrency, deviceMemory, devicePixelRatio
    now,             \* timestamp of the latest platform callback / performance.now()
    rafPending,      \* a requestAnimationFrame callback is outstanding
    callbacks,       \* number of animation callbacks the platform has delivered
    outcome,         \* what the latest callback did: "none", "skipped", "rendered", "threw", "hung"
    drawn,           \* the pattern routines the latest run of animate called
    startTime,       \* value lastFrameTime was initialised with
    clickLog,        \* scene selector at startup and after each click
    deviceProfile, frameInterval, lastFrameTime, frameCount, actualFPS,
    width, height, canvasWidth, canvasHeight,
    mouseX, mouseY, time, currentPattern, autoRotate,
    particles,       \* particles.length
    particle,        \* the Particle followed in SpecParticles, in a sequence;
                     \* << >> before it is constructed
    activeScene, transitionProgress, hueShift, glitchTimer, pointer,
    interacting, lastMoveTime, isTouch, fadeOpacity

vars == << script, pc, canvas, placeholder, drawn, env, now, rafPending, callbacks, outcome, startTime, clickLog,
           deviceProfile, frameInterval, lastFrameTime, frameCount, actualFPS,
           width, height, canvasWidth, canvasHeight,
           mouseX, mouseY, time, currentPattern, autoRotate, particles, particle,
           activeScene, transitionProgress, hueShift, glitchTimer, pointer,
           interacting, lastMoveTime, isTouch, fadeOpacity >>

schedulerVars == << frameInterval, lastFrameTime, frameCount, actualFPS >>
canvasVars    == << width, height, canvasWidth, canvasHeight >>
psyVars       == << activeScene, transitionProgress, hueShift, glitchTimer, pointer >>
pageVars      == << canvas, placeholder >>
aggVars       == << interacting, lastMoveTime, isTouch, fadeOpacity >>

-----------------------------------------------------------------------------
(* Bounds of the model *)

MaxCallbacks == 4        \* callbacks delivered in Spec
MaxClicks == 6           \* clicks / taps delivered
MaxAggFrames == 12       \* activations of the aggressive animate()
NCallbacks == 1000       \* callbacks delivered in SpecDrift and SpecScenario
DriftChoices == 7        \* callbacks of SpecDrift whose spacing is chosen freely

(* Units *)
UnitsPerMs == 9
Ms(n) == n * UnitsPerMs

Min(a, b) == IF a <= b THEN a ELSE b
Max(a, b) == IF a >= b THEN a ELSE b

-----------------------------------------------------------------------------
(* Math.sin / Math.cos in fixed point: argument in milliradians, result    *)
(* in 1/1000.  Range reduction to [0, pi/2], then the Taylor polynomial    *)
(* up to x^7.                                                              *)

SinQuarter(y) ==
    LET y2 == (y * y) \div 1000
        t3 == (y * y2) \div 6000
        t5 == (t3 * y2) \div 20000
        t7 == (t5 * y2) \div 42000
    IN  Min(1000, y - t3 + t5 - t7)

SinMilli(x) ==
    LET r == x % 6283
    IN  IF r <= 1571 THEN SinQuarter(r)
        ELSE IF r <= 3142 THEN SinQuarter(3142 - r)
        ELSE IF r <= 4712 THEN 0 - SinQuarter(r - 3142)
        ELSE 0 - SinQuarter(6283 - r)

CosMilli(x) == SinMilli(x + 1571)

-----------------------------------------------------------------------------
(* The platform                                                            *)

UATokens == {"mobile", "android", "iphone", "ipad", "ipod", "tablet"}

\* 0 stands for an absent (undefined) navigator / window property
AllEnvs == [ ua : SUBSET UATokens,
             cores : {0, 1, 2, 4, 8, 16},
             memory : {0, 2, 4, 8},
             dpr : {0, 50, 100, 150, 200, 300} ]

Env(ua, cores, memory, dpr) == [ua |-> ua, cores |-> cores, memory |-> memory, dpr |-> dpr]

\* the environments of Spec: a phone (30 fps), a tablet (45 fps), a desktop (60 fps)
MainEnvs == { Env({"android", "mobile"}, 8, 4, 300),
              Env({"ipad"}, 4, 4, 200),
              Env({}, 4, 8, 100) }

NoEnv == Env({}, 0, 0, 0)

WindowSizes == { <<200, 100>>, <<100, 200>> }
StartTimes == { 7 }

\* spacing of successive callback timestamps, in 1/9 ms
Deltas == { 0, Ms(16), 300, 475 }
DriftDeltas == { Ms(16), 100 }

\* pointer positions reported by mousemove (inside the canvas) and by
\* touchmove (a touch that started on the canvas may leave it)
MouseXs == { 50 }
MouseYs == { 25, 99 }
TouchXs == { 50 }
TouchYs == { 0 - 20, 250 }

-----------------------------------------------------------------------------
(* fractal.js: device profile                                              *)

Profile(c, fps, pr, q, mp, mpoly) ==
    [ complexity |-> c, targetFPS |-> fps, pixelRatio |-> pr, quality |-> q,
      maxParticles |-> mp, maxPolygons |-> mpoly ]

\* let deviceProfile = {...}: maxParticles and maxPolygons are undefined (0)
DefaultProfile == Profile(10, 60, 100, "high", 0, 0)

IsMobile(e) == e.ua \cap {"mobile", "android", "iphone", "ipad", "ipod"} # {}
IsTablet(e) == e.ua \cap {"ipad", "tablet"} # {}
PixelRatioOf(e) == IF e.dpr = 0 THEN 100 ELSE e.dpr
CoresOfAssumesFour(e) == IF e.cores = 0 THEN 4 ELSE e.cores

\* navigator.hardwareConcurrency || 2
CoresOf(e) == IF e.cores = 0 THEN 2 ELSE e.cores
MemoryOf(e) == IF e.memory = 0 THEN 4 ELSE e.memory

\* pixelRatio: 1 of the low-end desktop tier
LowEndPixelRatio(e) == 100

detectDevice(e) ==
    IF IsMobile(e) /\ ~IsTablet(e)
        THEN Profile(4, 30, Min(PixelRatioOf(e), 150), "low", 100, 8)
    ELSE IF IsTablet(e)
        THEN Profile(6, 45, Min(PixelRatioOf(e), 200), "medium", 200, 12)
    ELSE IF CoresOf(e) >= 8 /\ MemoryOf(e) >= 8
        THEN Profile(10, 60, Min(PixelRatioOf(e), 200), "ultra", 400, 20)
    ELSE IF CoresOf(e) >= 4
        THEN Profile(8, 60, Min(PixelRatioOf(e), 200), "high", 300, 15)
    ELSE Profile(5, 30, LowEndPixelRatio(e), "medium", 150, 10)

FrameIntervalDefault(profile) == Ms(1000) \div DefaultProfile.targetFPS

FrameIntervalOf(profile) == Ms(1000) \div profile.targetFPS

-----------------------------------------------------------------------------
(* Initial state: the page has loaded one script, nothing has run yet.     *)
(* The globals hold the values of their declarations.                      *)

InitWith(scripts, envs, canvases) ==
    /\ script \in scripts
    /\ pc = "load"
    /\ canvas \in canvases
    /\ placeholder = FALSE
    /\ env \in (IF script = "fractal" THEN envs ELSE {NoEnv})
    /\ now = 0
    /\ rafPending = FALSE
    /\ callbacks = 0
    /\ outcome = "none"
    /\ drawn = {}
    /\ startTime = 0
    /\ clickLog = << 0 >>
    /\ deviceProfile = DefaultProfile
    /\ frameInterval = 0
    /\ lastFrameTime = 0
    /\ frameCount = 0
    /\ actualFPS = 60
    /\ width = 0 /\ height = 0 /\ canvasWidth = 0 /\ canvasHeight = 0
    /\ mouseX = 500 /\ mouseY = 500
    /\ time = 0
    /\ currentPattern = 0
    /\ autoRotate = TRUE
    /\ particles = 0
    /\ particle = << >>
    /\ activeScene = 0
    /\ transitionProgress = 0
    /\ hueShift = 0
    /\ glitchTimer = 0
    /\ pointer = [x |-> 500, y |-> 500]
    /\ interacting = FALSE
    /\ lastMoveTime = 0
    /\ isTouch = FALSE
    /\ fadeOpacity = 15

Init == InitWith({"fractal", "psy", "aggressive"}, MainEnvs, BOOLEAN)

-----------------------------------------------------------------------------
(* fractal.js: startup                                                     *)

CanvasFoundAlways == TRUE

\* if (!canvas), line 5 (part_000:350); a null canvas ends the script at
\* canvas.getContext('2d'), line 9 (part_000:7)
CanvasFound == canvas

\* lines 4-9 without the canvas element: the notice replaces the page, then
\* canvas.getContext throws a TypeError and nothing after line 9 runs
CanvasMissing ==
    /\ script = "fractal" /\ pc = "load"
    /\ ~CanvasFound
    /\ placeholder' = TRUE
    /\ pc' = "halted"
    /\ UNCHANGED << script, particle, canvas, drawn, env, now, rafPending, callbacks, outcome, startTime,
                    clickLog, deviceProfile, schedulerVars, canvasVars, mouseX, mouseY,
                    time, currentPattern, autoRotate, particles, psyVars, aggVars >>

\* lines 4-9 with the canvas element, then detectDevice(), line 89
DetectDevice ==
    /\ script = "fractal" /\ pc = "load"
    /\ CanvasFound
    /\ deviceProfile' = detectDevice(env)
    /\ pc' = "detected"
    /\ UNCHANGED << script, particle, pageVars, drawn, env, now, rafPending, callbacks, outcome, startTime, clickLog,
                    schedulerVars, canvasVars, mouseX, mouseY, time, currentPattern,
                    autoRotate, particles, psyVars, aggVars >>

\* resizeCanvas(): canvas.width = width * dpr
resizeCanvas(sz) ==
    /\ width' = sz[1]
    /\ height' = sz[2]
    /\ canvasWidth' = (sz[1] * deviceProfile.pixelRatio) \div 100
    /\ canvasHeight' = (sz[2] * deviceProfile.pixelRatio) \div 100

\* lines 92-141 and 447: the globals, resizeCanvas(), the listeners, the
\* first requestAnimationFrame(animate)
Start ==
    /\ script = "fractal" /\ pc = "detected"
    /\ \E t \in StartTimes, sz \in WindowSizes :
          /\ now' = t
          /\ lastFrameTime' = t
          /\ startTime' = t
          /\ resizeCanvas(sz)
    /\ frameCount' = 0
    /\ actualFPS' = 60
    /\ frameInterval' = FrameIntervalOf(deviceProfile)
    /\ mouseX' = 500 /\ mouseY' = 500
    /\ time' = 0
    /\ currentPattern' = 0
    /\ autoRotate' = TRUE
    /\ rafPending' = TRUE
    /\ pc' = "running"
    /\ UNCHANGED << script, particle, pageVars, drawn, env, callbacks, outcome, clickLog, deviceProfile,
                    particles, psyVars, aggVars >>

-----------------------------------------------------------------------------
(* fractal.js: input handlers                                              *)

fractalRunning == script = "fractal" /\ pc = "running"

\* window 'resize' -> resizeCanvas
ResizeCanvas ==
    /\ fractalRunning
    /\ \E sz \in WindowSizes : resizeCanvas(sz)
    /\ UNCHANGED << script, particle, pageVars, drawn, pc, env, now, rafPending, callbacks, outcome, startTime, clickLog,
                    deviceProfile, schedulerVars, mouseX, mouseY, time, currentPattern,
                    autoRotate, particles, psyVars, aggVars >>

NormalizeClamped(client, size) == Max(0, Min(1000, (client * 1000) \div size))

\* e.clientX / width
Normalize(client, size) == (client * 1000) \div size

\* canvas 'mousemove', lines 124-128
MouseMove ==
    /\ fractalRunning
    /\ \E cx \in MouseXs, cy \in MouseYs :
          /\ mouseX' = Normalize(cx, width)
          /\ mouseY' = Normalize(cy, height)
    /\ autoRotate' = FALSE
    /\ UNCHANGED << script, particle, pageVars, drawn, pc, env, now, rafPending, callbacks, outcome, startTime, clickLog,
                    deviceProfile, schedulerVars, canvasVars, time, currentPattern,
                    particles, psyVars, aggVars >>

\* canvas 'touchmove' with e.touches.length > 0, lines 130-137
TouchMove ==
    /\ fractalRunning
    /\ \E cx \in TouchXs, cy \in TouchYs :
          /\ mouseX' = Normalize(cx, width)
          /\ mouseY' = Normalize(cy, height)
    /\ autoRotate' = FALSE
    /\ UNCHANGED << script, particle, pageVars, drawn, pc, env, now, rafPending, callbacks, outcome, startTime, clickLog,
                    deviceProfile, schedulerVars, canvasVars, time, currentPattern,
                    particles, psyVars, aggVars >>

NextSceneNoWrap(i) == i + 1

NextSceneMod4(i) == (i + 1) % 4

\* (currentPattern + 1) % 5
NextScene(i) == (i + 1) % 5

\* canvas 'click', lines 139-141
Click ==
    /\ fractalRunning
    /\ Len(clickLog) <= MaxClicks
    /\ currentPattern' = NextScene(currentPattern)
    /\ clickLog' = Append(clickLog, currentPattern')
    /\ UNCHANGED << script, particle, pageVars, drawn, pc, env, now, rafPending, callbacks, outcome, startTime,
                    deviceProfile, schedulerVars, canvasVars, mouseX, mouseY, time,
                    autoRotate, particles, psyVars, aggVars >>

-----------------------------------------------------------------------------
(* fractal.js: the pattern routines, as far as they change or end the frame *)

FractalRoutinesFallThrough(p) ==
    { <<"drawPolygons", "drawVectorLines", "drawKaleidoscope", "drawParticles",
        "drawMandala">>[q + 1] : q \in p..Min(p + 1, 4) }

\* switch (currentPattern), lines 421-437
FractalRoutines(p) ==
    { <<"drawPolygons", "drawVectorLines", "drawKaleidoscope", "drawParticles",
        "drawMandala">>[p + 1] }

\* drawKaleidoscope reads the undeclared `offset` (line 269) and drawMandala
\* the undeclared `ring` (line 390): both end in a ReferenceError
PatternThrows(p) == p \in {2, 4}

ParticleTargetClamped(profile, my) == (profile.maxParticles * Max(0, Min(1000, my))) \div 1000

\* Math.floor(deviceProfile.maxParticles * mouseY)
ParticleTarget(profile, my) == (profile.maxParticles * my) \div 1000

\* initParticles: with a negative count the second loop pops an empty pool forever
InitParticlesHangs(count) == count < 0

\* A particle: x, y in 1/1000 px, angle in 1/10000 rad, speed in 1/1000 px per
\* tick, life in 1/100.  radius and color do not enter update.
\* The random draws of reset(): the angle, Math.random() * Math.PI * 2, and
\* the speed, 1 + Math.random() * 3.
FreshChoices == [ angle : {0, 15708, 39270}, speed : {1000, 3999} ]

\* Particle.reset, lines 294-302
ParticleReset(fresh) ==
    [ x |-> (width * 1000) \div 2, y |-> (height * 1000) \div 2,
      angle |-> fresh.angle, speed |-> fresh.speed, life |-> 100 ]

\* the four assignments of Particle.update, lines 305-308
ParticleMove(p) ==
    [ x |-> p.x + (CosMilli(p.angle \div 10) * p.speed) \div 1000,
      y |-> p.y + (SinMilli(p.angle \div 10) * p.speed) \div 1000,
      angle |-> p.angle + (mouseX - 500),
      speed |-> p.speed,
      life |-> p.life - 1 ]

NeedsResetExpiredOnly(p) == p.life <= 0

\* this.life <= 0 || this.x < 0 || this.x > width || this.y < 0 || this.y > height
NeedsReset(p) ==
    p.life <= 0 \/ p.x < 0 \/ p.x > width * 1000 \/ p.y < 0 \/ p.y > height * 1000

\* new Particle(), as initParticles pushes it (line 327)
NewParticle ==
    /\ fractalRunning
    /\ particle = << >>
    /\ \E fresh \in FreshChoices : particle' = << ParticleReset(fresh) >>
    /\ particles' = particles + 1
    /\ UNCHANGED << script, pageVars, drawn, pc, env, now, rafPending, callbacks, outcome,
                    startTime, clickLog, deviceProfile, schedulerVars, canvasVars,
                    mouseX, mouseY, time, currentPattern, autoRotate, psyVars, aggVars >>

\* p.update(), as drawParticles calls it (line 337)
UpdateParticle ==
    /\ fractalRunning
    /\ particle # << >>
    /\ LET q == ParticleMove(particle[1])
       IN  particle' \in IF NeedsReset(q)
                         THEN { << ParticleReset(fresh) >> : fresh \in FreshChoices }
                         ELSE { << q >> }
    /\ UNCHANGED << script, pageVars, drawn, pc, env, now, rafPending, callbacks, outcome,
                    startTime, clickLog, deviceProfile, schedulerVars, canvasVars,
                    mouseX, mouseY, time, currentPattern, autoRotate, particles,
                    psyVars, aggVars >>

-----------------------------------------------------------------------------
(* fractal.js: animate(currentTime), lines 397-443                         *)

FrameDueAlways(deltaTime) == deltaTime >= 0

\* deltaTime >= frameInterval
FrameDue(deltaTime) == deltaTime >= frameInterval

NextMarkerNow(currentTime, deltaTime) == currentTime

\* currentTime - (deltaTime % frameInterval)
NextMarker(currentTime, deltaTime) == currentTime - (deltaTime % frameInterval)

\* Math.round(1000 / deltaTime)
ObservedFPS(deltaTime) == (2 * Ms(1000) + deltaTime) \div (2 * deltaTime)

AutoXCos(t) == 500 + (CosMilli(3 * t) * 3) \div 10

\* 0.5 + Math.sin(time * 0.3) * 0.3 and 0.5 + Math.cos(time * 0.2) * 0.3
AutoX(t) == 500 + (SinMilli(3 * t) * 3) \div 10
AutoY(t) == 500 + (CosMilli(2 * t) * 3) \div 10

AnimateStep(D, limit) ==
    /\ fractalRunning
    /\ rafPending
    /\ callbacks < limit
    /\ \E d \in D :
        LET currentTime == now + d
            deltaTime == currentTime - lastFrameTime
            mx == IF autoRotate THEN AutoX(time) ELSE mouseX
            my == IF autoRotate THEN AutoY(time) ELSE mouseY
            count == ParticleTarget(deviceProfile, my)
        IN
        /\ now' = currentTime
        /\ callbacks' = callbacks + 1
        /\ IF FrameDue(deltaTime)
           THEN /\ lastFrameTime' = NextMarker(currentTime, deltaTime)
                /\ frameCount' = frameCount + 1
                /\ actualFPS' = IF (frameCount + 1) % 60 = 0
                                THEN ObservedFPS(deltaTime) ELSE actualFPS
                /\ mouseX' = mx
                /\ mouseY' = my
                /\ drawn' = FractalRoutines(currentPattern)
                /\ IF PatternThrows(currentPattern)
                   THEN \* the exception leaves animate before time += 0.03 and
                        \* before requestAnimationFrame(animate)
                        /\ outcome' = "threw"
                        /\ rafPending' = FALSE
                        /\ UNCHANGED << pc, time, particles >>
                   ELSE IF currentPattern = 3 /\ InitParticlesHangs(count)
                   THEN /\ outcome' = "hung"
                        /\ pc' = "hung"
                        /\ particles' = 0
                        /\ rafPending' = FALSE
                        /\ UNCHANGED time
                   ELSE /\ outcome' = "rendered"
                        /\ particles' = IF currentPattern = 3 THEN count ELSE particles
                        /\ time' = time + 3
                        /\ rafPending' = TRUE
                        /\ UNCHANGED pc
           ELSE /\ outcome' = "skipped"
                /\ drawn' = {}
                /\ rafPending' = TRUE
                /\ UNCHANGED << pc, lastFrameTime, frameCount, actualFPS, mouseX, mouseY,
                                time, particles >>
    /\ UNCHANGED << script, particle, pageVars, env, startTime, clickLog, deviceProfile, frameInterval,
                    canvasVars, currentPattern, autoRotate, psyVars, aggVars >>

Animate == AnimateStep(Deltas, MaxCallbacks)

NextFractal == CanvasMissing \/ DetectDevice \/ Start \/ Animate \/ MouseMove \/ TouchMove \/ Click \/ ResizeCanvas

-----------------------------------------------------------------------------
(* part_000, class PsyVisualizer (lines 4-303)                             *)

psyRunning == script = "psy" /\ pc = "running"

\* the body of animate() up to the scene switch and the glitch, lines 268-299;
\* `glitch` is the outcome of Math.random() < 0.05
psyFrame(glitch) ==
    /\ hueShift' = hueShift + 2
    /\ transitionProgress' = Min(100, transitionProgress + 2)
    /\ glitchTimer' = IF glitchTimer + 2 > 100 /\ glitch THEN 0 ELSE glitchTimer + 2

\* switch(this.activeScene), lines 277-293
PsyRoutines(p) ==
    { <<"scene1_flowField", "scene2_particleNexus", "scene3_geometricMorph",
        "scene4_waveInterference", "scene5_vortexTunnel">>[p + 1] }

\* new PsyVisualizer('fractalCanvas') on DOMContentLoaded: the constructor,
\* init() with resize(), the listeners, 150 particles and the first animate()
PsyConstruct ==
    /\ script = "psy" /\ pc = "load"
    /\ CanvasFound
    /\ \E sz \in WindowSizes : canvasWidth' = sz[1] /\ canvasHeight' = sz[2]
    /\ particles' = 150
    /\ pointer' = [x |-> 500, y |-> 500]
    /\ activeScene' = 0
    /\ hueShift' = 2
    /\ transitionProgress' = 2
    /\ glitchTimer' = 2
    /\ drawn' = PsyRoutines(0)
    /\ rafPending' = TRUE
    /\ pc' = "running"
    /\ UNCHANGED << script, particle, pageVars, env, now, callbacks, outcome, startTime, clickLog, deviceProfile,
                    schedulerVars, width, height, mouseX, mouseY, time, currentPattern,
                    autoRotate, aggVars >>

\* requestAnimationFrame(() => this.animate()), lines 267-302
PsyAnimate ==
    /\ psyRunning
    /\ rafPending
    /\ callbacks < MaxCallbacks
    /\ \E glitch \in BOOLEAN : psyFrame(glitch)
    /\ callbacks' = callbacks + 1
    /\ outcome' = "rendered"
    /\ drawn' = PsyRoutines(activeScene)
    /\ rafPending' = TRUE
    /\ UNCHANGED << script, particle, pageVars, pc, env, now, startTime, clickLog, deviceProfile, schedulerVars,
                    canvasVars, mouseX, mouseY, time, currentPattern, autoRotate, particles,
                    activeScene, pointer, aggVars >>

\* canvas 'mousemove', lines 24-27
PsyMouseMove ==
    /\ psyRunning
    /\ \E cx \in MouseXs, cy \in MouseYs :
          pointer' = [x |-> Normalize(cx, canvasWidth), y |-> Normalize(cy, canvasHeight)]
    /\ UNCHANGED << script, particle, pageVars, drawn, pc, env, now, rafPending, callbacks, outcome, startTime, clickLog,
                    deviceProfile, schedulerVars, canvasVars, mouseX, mouseY, time,
                    currentPattern, autoRotate, particles, activeScene, transitionProgress,
                    hueShift, glitchTimer, aggVars >>

\* canvas 'click', lines 29-32
PsyClick ==
    /\ psyRunning
    /\ Len(clickLog) <= MaxClicks
    /\ activeScene' = NextScene(activeScene)
    /\ transitionProgress' = 0
    /\ clickLog' = Append(clickLog, activeScene')
    /\ UNCHANGED << script, particle, pageVars, drawn, pc, env, now, rafPending, callbacks, outcome, startTime,
                    deviceProfile, schedulerVars, canvasVars, mouseX, mouseY, time,
                    currentPattern, autoRotate, particles, hueShift, glitchTimer, pointer,
                    aggVars >>

\* window 'resize' -> this.resize(), lines 41-44
PsyResize ==
    /\ psyRunning
    /\ \E sz \in WindowSizes : canvasWidth' = sz[1] /\ canvasHeight' = sz[2]
    /\ UNCHANGED << script, particle, pageVars, drawn, pc, env, now, rafPending, callbacks, outcome, startTime, clickLog,
                    deviceProfile, schedulerVars, width, height, mouseX, mouseY, time,
                    currentPattern, autoRotate, particles, psyVars, aggVars >>

\* the constructor without the canvas element: this.canvas.getContext throws
\* a TypeError at line 7, before init()
PsyConstructFails ==
    /\ script = "psy" /\ pc = "load"
    /\ ~CanvasFound
    /\ pc' = "halted"
    /\ UNCHANGED << script, particle, pageVars, drawn, env, now, rafPending, callbacks, outcome, startTime,
                    clickLog, deviceProfile, schedulerVars, canvasVars, mouseX, mouseY,
                    time, currentPattern, autoRotate, particles, psyVars, aggVars >>

NextPsy == PsyConstructFails \/ PsyConstruct \/ PsyAnimate \/ PsyMouseMove \/ PsyClick \/ PsyResize

-----------------------------------------------------------------------------
(* part_000, aggressive variant (lines 347-661)                            *)

aggRunning == script = "aggressive" /\ pc = "running"

\* lines 349-406: the globals, resizeCanvas(), the listeners.  Nothing at
\* top level calls animate(): it is declared inside applyGlitch.
AggLoad ==
    /\ script = "aggressive" /\ pc = "load"
    /\ CanvasFound
    /\ \E sz \in WindowSizes :
          /\ width' = sz[1] /\ canvasWidth' = sz[1]
          /\ height' = sz[2] /\ canvasHeight' = sz[2]
    /\ mouseX' = 500 /\ mouseY' = 500
    /\ time' = 0
    /\ currentPattern' = 0
    /\ interacting' = FALSE
    /\ lastMoveTime' = 0
    /\ isTouch' = FALSE
    /\ fadeOpacity' = 15
    /\ pc' = "running"
    /\ UNCHANGED << script, particle, pageVars, drawn, env, now, rafPending, callbacks, outcome, startTime, clickLog,
                    deviceProfile, schedulerVars, autoRotate, particles, psyVars >>

\* window 'resize' -> resizeCanvas, lines 380-385
AggResize ==
    /\ aggRunning
    /\ \E sz \in WindowSizes :
          /\ width' = sz[1] /\ canvasWidth' = sz[1]
          /\ height' = sz[2] /\ canvasHeight' = sz[2]
    /\ UNCHANGED << script, particle, pageVars, drawn, pc, env, now, rafPending, callbacks, outcome, startTime, clickLog,
                    deviceProfile, schedulerVars, mouseX, mouseY, time, currentPattern,
                    autoRotate, particles, psyVars, aggVars >>

\* document 'mousemove' (touch = FALSE, lines 387-393) and 'touchmove' with
\* e.touches.length > 0 (touch = TRUE, lines 394-402)
aggMove(cx, cy, touch) ==
    /\ mouseX' = Normalize(cx, width)
    /\ mouseY' = Normalize(cy, height)
    /\ lastMoveTime' = time
    /\ interacting' = TRUE
    /\ isTouch' = touch
    /\ UNCHANGED << script, particle, pageVars, drawn, pc, env, now, rafPending, callbacks, outcome, startTime, clickLog,
                    deviceProfile, schedulerVars, canvasVars, time, currentPattern,
                    autoRotate, particles, psyVars, fadeOpacity >>

AggMouseMove == aggRunning /\ \E cy \in MouseYs : aggMove(50, cy, FALSE)

AggTouchMove == aggRunning /\ \E cy \in TouchYs : aggMove(50, cy, TRUE)

\* document 'touchend', lines 403-406
AggTouchEnd ==
    /\ aggRunning
    /\ Len(clickLog) <= MaxClicks
    /\ currentPattern' = NextScene(currentPattern)
    /\ interacting' = FALSE
    /\ clickLog' = Append(clickLog, currentPattern')
    /\ UNCHANGED << script, particle, pageVars, drawn, pc, env, now, rafPending, callbacks, outcome, startTime,
                    deviceProfile, schedulerVars, canvasVars, mouseX, mouseY, time,
                    autoRotate, particles, psyVars, lastMoveTime, isTouch, fadeOpacity >>

\* Math.sin(time * PULSE_FREQ * Math.PI * 2) > FLASH_THRESHOLD, with
\* PULSE_FREQ = 128 / 60 * 8: 1.0723 rad per 0.01 of time
FlashOn(t) == SinMilli(t * 1072) > 850

\* time - lastMoveTime > STOP_THRESHOLD
IdleTooLong(t) == t - lastMoveTime > 30

\* switch (currentPattern), lines 609-630; the first `case 3:` wins
AggRoutines(p) ==
    IF p = 0 THEN {"drawSpinningPolygons", "drawSymmetryLines"}
    ELSE IF p = 1 THEN {"drawVectorLines", "drawSpinningPolygons"}
    ELSE IF p = 2 THEN {"drawGreyFractal"}
    ELSE IF p = 3 THEN {"drawSymmetryLines", "drawVectorLines"}
    ELSE {"drawSpinningPolygons", "drawVectorLines", "drawSymmetryLines", "drawGreyFractal"}

\* One activation of animate(), lines 595-659.  The function is only called
\* from its own body (line 659) and scheduled from it (line 656); the model
\* lets it be entered.  The auto-cycle advance of lines 638-640 sits under a
\* second `case 3:` label that the switch never selects.
AggAnimate ==
    /\ aggRunning
    /\ callbacks < MaxAggFrames
    /\ time' = time + 4
    /\ fadeOpacity' = 5
    /\ callbacks' = callbacks + 1
    /\ outcome' = "rendered"
    /\ drawn' = IF FlashOn(time + 4) THEN AggRoutines(currentPattern) ELSE {}
    /\ IF FlashOn(time + 4)
       THEN /\ IF interacting /\ IdleTooLong(time + 4)
               THEN currentPattern' = NextScene(currentPattern) /\ interacting' = FALSE
               ELSE UNCHANGED << currentPattern, interacting >>
            /\ rafPending' = TRUE
       ELSE UNCHANGED << currentPattern, interacting, rafPending >>
    /\ UNCHANGED << script, particle, pageVars, pc, env, now, startTime, clickLog, deviceProfile,
                    schedulerVars, canvasVars, mouseX, mouseY, autoRotate, particles, psyVars,
                    lastMoveTime, isTouch >>

\* lines 349-353 without the canvas element: console.error, then
\* throw new Error(...); the page content is left alone
AggLoadFails ==
    /\ script = "aggressive" /\ pc = "load"
    /\ ~CanvasFound
    /\ pc' = "halted"
    /\ UNCHANGED << script, particle, pageVars, drawn, env, now, rafPending, callbacks, outcome, startTime,
                    clickLog, deviceProfile, schedulerVars, canvasVars, mouseX, mouseY,
                    time, currentPattern, autoRotate, particles, psyVars, aggVars >>

NextAggressive == AggLoadFails \/ AggLoad \/ AggResize \/ AggMouseMove \/ AggTouchMove \/ AggTouchEnd \/ AggAnimate

-----------------------------------------------------------------------------
(* Specifications                                                          *)

Next == NextFractal \/ NextPsy \/ NextAggressive

Spec == Init /\ [][Next]_vars

\* the profiler alone, over every environment
NextProfile == DetectDevice \/ Start

SpecProfile == InitWith({"fractal"}, AllEnvs, {TRUE}) /\ [][NextProfile]_vars

\* a long run of callbacks less than one frame interval apart, no input
\* events: the first DriftChoices spacings are any of DriftDeltas, the later
\* ones repeat 100/9 ms, 16 ms, 16 ms
DriftSpacing(n) ==
    IF n < DriftChoices THEN DriftDeltas
    ELSE IF n % 3 = 0 THEN {100} ELSE {Ms(16)}

DriftAnimate == AnimateStep(DriftSpacing(callbacks), NCallbacks)

NextDrift == DetectDevice \/ Start \/ DriftAnimate

SpecDrift == InitWith({"fractal"}, MainEnvs, {TRUE}) /\ [][NextDrift]_vars

\* pointer and touch moves before the first callback, then a long run of
\* callbacks and no further input
QuietMouseMove == callbacks = 0 /\ MouseMove

QuietTouchMove == callbacks = 0 /\ TouchMove

NextQuiet == DetectDevice \/ Start \/ QuietMouseMove \/ QuietTouchMove \/ DriftAnimate

SpecQuiet == InitWith({"fractal"}, MainEnvs, {TRUE}) /\ [][NextQuiet]_vars

\* targetFPS = 30 and callbacks exactly 16 ms apart
ScenarioEnvs == { Env({"android", "mobile"}, 8, 4, 300), Env({}, 0, 0, 0) }

ScenarioAnimate == AnimateStep({Ms(16)}, NCallbacks)

NextScenario == DetectDevice \/ Start \/ ScenarioAnimate

SpecScenario == InitWith({"fractal"}, ScenarioEnvs, {TRUE}) /\ [][NextScenario]_vars

\* The class Particle on its own: one particle is constructed and updated
\* tick after tick, with the globals it reads (mouseX, width, height) set by
\* the handlers of the page.  The pointer moves before the particle exists.
StillMouseMove == particle = << >> /\ MouseMove

NextParticles ==
    DetectDevice \/ Start \/ StillMouseMove \/ ResizeCanvas \/ NewParticle \/ UpdateParticle

SpecParticles == InitWith({"fractal"}, {Env({}, 4, 8, 100)}, {TRUE}) /\ [][NextParticles]_vars

-----------------------------------------------------------------------------
(* Claims                                                                  *)

\* the five tiers: complexity, targetFPS, quality, maxParticles, maxPolygons
Tiers == { <<4, 30, "low", 100, 8>>, <<6, 45, "medium", 200, 12>>,
           <<10, 60, "ultra", 400, 20>>, <<8, 60, "high", 300, 15>>,
           <<5, 30, "medium", 150, 10>> }

TierOf(p) == << p.complexity, p.targetFPS, p.quality, p.maxParticles, p.maxPolygons >>

fractalStarted == script = "fractal" /\ pc \in {"running", "hung"}

\* C1: after detectDevice the profile is exactly one of the five tiers, its
\* targetFPS is 30, 45 or 60, and its pixelRatio does not exceed the pixel
\* ratio the platform reports (1 when none is reported).
C1_ProfileConsistent ==
    (script = "fractal" /\ pc # "load") =>
        /\ Cardinality({ t \in Tiers : t = TierOf(deviceProfile) }) = 1
        /\ deviceProfile.targetFPS \in {30, 45, 60}
        /\ deviceProfile.pixelRatio <= PixelRatioOf(env)

\* C2: a callback accepts at most one frame, accepts it exactly when the time
\* since the last-accepted marker is at least frameInterval, and otherwise
\* renders nothing; frames never outnumber callbacks.
C2_Throttle ==
    [][ (script = "fractal" /\ callbacks' = callbacks + 1) =>
           /\ now' >= now
           /\ frameCount' \in {frameCount, frameCount + 1}
           /\ (frameCount' = frameCount + 1) <=> (now' - lastFrameTime >= frameInterval)
           /\ (now' - lastFrameTime < frameInterval) =>
                 (outcome' = "skipped" /\ time' = time /\ particles' = particles)
           /\ (outcome' # "skipped") => (now' - lastFrameTime >= frameInterval)
           /\ frameCount' <= callbacks' ]_vars

C2_Witness ==
    script = "fractal" /\ outcome = "skipped" /\ frameCount >= 1 /\ callbacks >= 3

\* C3: the animation clock never decreases, advances by 0.03 on every
\* accepted frame and stays put on every other step.
C3_ClockFixedStep ==
    [][ script = "fractal" =>
           /\ time' >= time
           /\ (frameCount' = frameCount + 1) => (time' = time + 3)
           /\ (frameCount' = frameCount) => (time' = time) ]_vars

\* C4: an accepted frame moves lastFrameTime forward by whole frame intervals:
\* afterwards 0 <= currentTime - lastFrameTime < frameInterval, lastFrameTime
\* never decreases and stays a multiple of frameInterval away from its
\* initial value.
C4_CarryRemainder ==
    [][ (fractalStarted /\ fractalStarted') =>
           /\ lastFrameTime' >= lastFrameTime
           /\ (frameCount' = frameCount + 1) =>
                 (0 <= now' - lastFrameTime' /\ now' - lastFrameTime' < frameInterval')
           /\ (lastFrameTime' - startTime') % frameInterval' = 0 ]_vars

C4_Witness ==
    /\ fractalStarted /\ frameCount >= 2
    /\ now - lastFrameTime > 0
    /\ lastFrameTime - startTime > 2 * frameInterval

\* C5: with callbacks less than one frame interval apart, the number of
\* accepted frames is floor(T / frameInterval) at every callback, T being the
\* time elapsed since the initial marker.
C5_NoDrift ==
    fractalStarted => frameCount = (now - startTime) \div frameInterval

C5_Witness ==
    fractalStarted /\ callbacks = NCallbacks /\ frameCount >= 300

\* C6 (as stated): at 30 fps and callbacks 16 ms apart, frames are accepted on
\* the 2nd and the 4th callback only.
C6_SecondAndFourth ==
    (fractalStarted /\ deviceProfile.targetFPS = 30) =>
        /\ (callbacks = 1) => (frameCount = 0)
        /\ (callbacks = 2) => (frameCount = 1)
        /\ (callbacks = 3) => (frameCount = 1)
        /\ (callbacks = 4) => (frameCount = 2)

\* C6 (amended): at 30 fps and callbacks 16 ms apart, of the first four
\* callbacks only the 3rd accepts a frame.
C6_ThirdOnly ==
    (fractalStarted /\ deviceProfile.targetFPS = 30) =>
        /\ (callbacks = 1) => (frameCount = 0)
        /\ (callbacks = 2) => (frameCount = 0)
        /\ (callbacks = 3) => (frameCount = 1)
        /\ (callbacks = 4) => (frameCount = 1)

C6_Witness ==
    /\ fractalStarted /\ deviceProfile.targetFPS = 30
    /\ callbacks = 4 /\ now = startTime + 4 * Ms(16) /\ frameCount = 1

\* C7: the scene selector of every script is an integer in [0, 5) in every
\* reachable state.
C7_SelectorInRange ==
    /\ currentPattern \in 0..4
    /\ activeScene \in 0..4

\* four taps and one idle-timeout advance have wrapped the selector to 0
C7_Witness ==
    script = "aggressive" /\ Len(clickLog) = 5 /\ currentPattern = 0 /\ ~interacting

\* C8: each click advances the selector by exactly one modulo 5: the selector
\* after five consecutive clicks is the one before them, after fewer it is not.
C8_FiveClicksCycle ==
    (script \in {"fractal", "psy"}) =>
        /\ clickLog[Len(clickLog)] = (IF script = "fractal" THEN currentPattern ELSE activeScene)
        /\ \A i \in DOMAIN clickLog : \A j \in DOMAIN clickLog :
              /\ (j = i + 1) => (clickLog[j] - clickLog[i] \in {1, 0 - 4})
              /\ (j = i + 5) => (clickLog[j] = clickLog[i])
              /\ (i < j /\ j < i + 5) => (clickLog[j] # clickLog[i])

C8_Witness ==
    script = "psy" /\ Len(clickLog) >= 7 /\ callbacks >= 2 /\ pointer.y # 500

\* C9 (as stated): after any accepted frame the pool holds
\* floor(maxParticles * clamp(pointerY, 0, 1)) particles, give or take one.
C9_PoolFollowsPointer ==
    [][ (script = "fractal" /\ frameCount' = frameCount + 1) =>
           LET want == (deviceProfile.maxParticles * Max(0, Min(1000, mouseY'))) \div 1000
           IN  particles' - want \in {0 - 1, 0, 1} ]_vars

\* C9 (amended): an accepted frame that draws the particle scene (index 3)
\* leaves floor(maxParticles * pointerY) particles in the pool, without a
\* clamp at 1 (an empty pool when pointerY is negative); every other callback
\* leaves the size of the pool unchanged.
C9_PoolInParticleScene ==
    [][ (script = "fractal" /\ callbacks' = callbacks + 1) =>
           IF frameCount' = frameCount + 1 /\ currentPattern = 3
           THEN particles' = Max(0, (deviceProfile.maxParticles * mouseY') \div 1000)
           ELSE particles' = particles ]_vars

C9_Witness ==
    /\ script = "fractal" /\ outcome = "rendered" /\ currentPattern = 3
    /\ mouseY > 1000 /\ particles > deviceProfile.maxParticles

\* C10: deviceProfile is assigned at startup only and frameInterval once,
\* from it: no callback and no input event changes either, and
\* frameInterval = 1000 / deviceProfile.targetFPS as long as the script runs.
C10_ProfileFrozen ==
    [][ script = "fractal" =>
           /\ (deviceProfile' # deviceProfile) => (pc = "load")
           /\ (frameInterval' # frameInterval) => (pc = "detected")
           /\ fractalStarted' =>
                 (frameInterval' * deviceProfile'.targetFPS = Ms(1000)) ]_vars

C10_Witness ==
    /\ fractalStarted /\ deviceProfile.targetFPS = 45
    /\ frameCount >= 1 /\ outcome = "skipped" /\ ~autoRotate
    /\ Len(clickLog) >= 2 /\ width = 100

\* C11: every invocation of the animation callback of fractal.js and of
\* PsyVisualizer leaves a next callback requested, so the loop never ends on
\* its own.
C11_AlwaysRerequests ==
    [][ (script \in {"fractal", "psy"} /\ callbacks' = callbacks + 1) => rafPending' ]_vars

C13_RearmsWhenQuiet ==
    (fractalStarted /\ callbacks = NCallbacks) => autoRotate

C15_RoutineAt(s, i) ==
    IF s = "fractal"
    THEN CASE i = 0 -> "drawPolygons"
           [] i = 1 -> "drawVectorLines"
           [] i = 2 -> "drawKaleidoscope"
           [] i = 3 -> "drawParticles"
           [] i = 4 -> "drawMandala"
    ELSE CASE i = 0 -> "scene1_flowField"
           [] i = 1 -> "scene2_particleNexus"
           [] i = 2 -> "scene3_geometricMorph"
           [] i = 3 -> "scene4_waveInterference"
           [] i = 4 -> "scene5_vortexTunnel"

C15_Selector == IF script = "fractal" THEN currentPattern ELSE activeScene

C15_OneRoutinePerFrame ==
    [][ /\ (script \in {"fractal", "psy"} /\ callbacks' = callbacks + 1) =>
              IF outcome' = "skipped"
              THEN drawn' = {}
              ELSE drawn' = {C15_RoutineAt(script, C15_Selector)}
        /\ (script \in {"fractal", "psy"} /\ clickLog' # clickLog) =>
              /\ C15_Selector' # C15_Selector
              /\ C15_RoutineAt(script, C15_Selector') # C15_RoutineAt(script, C15_Selector)
      ]_vars

C15_Witness ==
    /\ script = "fractal" /\ Len(clickLog) >= 5 /\ callbacks >= 2
    /\ outcome # "skipped" /\ drawn = {"drawMandala"}

\* ---------------------------------------------------------------------------
\* C16 -- tier selection always yields a tier: an absent core count, memory
\* estimate or pixel ratio is read as 2 cores, 4 GB, ratio 1, so a desktop
\* with all three absent gets the low-end profile (30 fps, ratio 1, 150
\* particles, 10 polygons); the rules are tried in a fixed order and the first
\* that matches wins, so a phone or tablet user agent decides the tier
\* whatever the cores and memory are.
C16_Cores == IF env.cores = 0 THEN 2 ELSE env.cores
C16_Memory == IF env.memory = 0 THEN 4 ELSE env.memory
C16_Ratio == IF env.dpr = 0 THEN 100 ELSE env.dpr

C16_Phone == env.ua \cap {"mobile", "android", "iphone", "ipod"} # {}
                /\ env.ua \cap {"ipad", "tablet"} = {}
C16_Tablet == env.ua \cap {"ipad", "tablet"} # {}

\* the rules in their order, each with the tier it selects and its ratio cap
C16_Rules ==
    << << C16_Phone, <<4, 30, "low", 100, 8>>, 150 >>,
       << C16_Tablet, <<6, 45, "medium", 200, 12>>, 200 >>,
       << C16_Cores >= 8 /\ C16_Memory >= 8, <<10, 60, "ultra", 400, 20>>, 200 >>,
       << C16_Cores >= 4, <<8, 60, "high", 300, 15>>, 200 >>,
       << TRUE, <<5, 30, "medium", 150, 10>>, 100 >> >>

C16_FirstMatch ==
    CHOOSE i \in 1..5 : C16_Rules[i][1] /\ \A j \in 1..(i - 1) : ~C16_Rules[j][1]

C16_FirstRuleWins ==
    (script = "fractal" /\ pc # "load") =>
        /\ TierOf(deviceProfile) = C16_Rules[C16_FirstMatch][2]
        /\ C16_FirstMatch < 5 =>
               deviceProfile.pixelRatio = Min(C16_Ratio, C16_Rules[C16_FirstMatch][3])
        /\ C16_Phone => TierOf(deviceProfile) = <<4, 30, "low", 100, 8>>
        /\ C16_Tablet => TierOf(deviceProfile) = <<6, 45, "medium", 200, 12>>
        /\ (env.ua = {} /\ env.cores = 0 /\ env.memory = 0 /\ env.dpr = 0) =>
               deviceProfile = Profile(5, 30, 100, "medium", 150, 10)

C16_Witness ==
    /\ script = "fractal" /\ pc = "running" /\ env = NoEnv
    /\ deviceProfile.targetFPS = 30 /\ deviceProfile.maxParticles = 150

\* ---------------------------------------------------------------------------
\* C17 (as stated): in every reachable state both pointer coordinates lie in
\* the range [0, 1].
C17_PointerInUnitSquare ==
    /\ mouseX \in 0..1000 /\ mouseY \in 0..1000
    /\ pointer.x \in 0..1000 /\ pointer.y \in 0..1000

\* C17 (amended): a pointer coordinate is the position the event reports
\* divided by the window size of that moment, unclamped: it lies in [0, 1]
\* exactly when the position lies inside the canvas.  An accepted frame puts
\* the pointer inside [0.2, 0.8] while auto-rotate is armed and leaves it alone
\* otherwise; a window resize leaves it alone; the pointer of PsyVisualizer,
\* fed by mouse moves only, stays in [0, 1].
C17_UnclampedQuotient ==
    [][ /\ (script = "fractal" /\ frameCount' = frameCount + 1) =>
              IF autoRotate
              THEN mouseX' \in 200..800 /\ mouseY' \in 200..800
              ELSE mouseX' = mouseX /\ mouseY' = mouseY
        /\ (script = "fractal" /\ pc = "running" /\ callbacks' = callbacks
               /\ << mouseX', mouseY' >> # << mouseX, mouseY >>) =>
              \E cx \in MouseXs \cup TouchXs, cy \in MouseYs \cup TouchYs :
                 /\ mouseX' * width <= cx * 1000 /\ cx * 1000 < (mouseX' + 1) * width
                 /\ mouseY' * height <= cy * 1000 /\ cy * 1000 < (mouseY' + 1) * height
                 /\ (mouseX' \in 0..1000) <=> (cx \in 0..width)
                 /\ (mouseY' \in 0..1000) <=> (cy \in 0..height)
        /\ (script = "fractal" /\ pc = "running"
               /\ << width', height' >> # << width, height >>) =>
              mouseX' = mouseX /\ mouseY' = mouseY
        /\ script = "psy" => pointer'.x \in 0..1000 /\ pointer'.y \in 0..1000
      ]_vars

C17_Witness ==
    /\ script = "fractal" /\ ~autoRotate /\ outcome = "rendered" /\ frameCount >= 1
    /\ mouseX \in 0..1000 /\ mouseY < 0

\* ---------------------------------------------------------------------------
\* C18 -- particles are recycled in place: an update leaves the size of the
\* pool alone, takes 0.01 off the lifetime, and resets the particle (lifetime
\* 1, position at the canvas centre) exactly when the lifetime has reached 0
\* or below or the position has left the canvas; after every update the
\* lifetime is in (0, 1] and the position inside [0, width] x [0, height].
C18_Left(q) == q.x < 0 \/ q.x > width * 1000 \/ q.y < 0 \/ q.y > height * 1000

C18_Fresh(q) == q.life = 100 /\ 2 * q.x = width * 1000 /\ 2 * q.y = height * 1000

C18_RecycledInPlace ==
    [][ (particle # << >> /\ particle' # particle) =>
           /\ particles' = particles
           /\ Len(particle') = 1
           /\ particle'[1].life \in 1..100
           /\ particle'[1].x \in 0..(width * 1000)
           /\ particle'[1].y \in 0..(height * 1000)
           /\ LET moved == ParticleMove(particle[1])
              IN  IF particle[1].life - 1 <= 0 \/ C18_Left(moved)
                  THEN C18_Fresh(particle'[1])
                  ELSE /\ particle'[1] = moved
                       /\ particle'[1].life = particle[1].life - 1
      ]_vars

\* a particle that has stayed inside the canvas for 99 updates, its lifetime
\* down to 0.01, steered by a pointer left of the centre
C18_Witness ==
    /\ script = "fractal" /\ particle # << >> /\ particle[1].life = 1
    /\ mouseX # 500 /\ particles = 1

\* ---------------------------------------------------------------------------
\* C19 -- a callback that arrives less than one frame interval after the
\* last-accepted marker changes nothing of the program: the marker, the
\* frame counter, the observed fps, the clock, the pointer, the scene
\* selector, the particle pool, the profile and the canvas are as before; it
\* only requests the next callback.
C19_SkippedChangesNothing ==
    [][ (script = "fractal" /\ callbacks' = callbacks + 1
           /\ now' - lastFrameTime < frameInterval) =>
              /\ lastFrameTime' = lastFrameTime
              /\ frameCount' = frameCount
              /\ actualFPS' = actualFPS
              /\ time' = time
              /\ mouseX' = mouseX /\ mouseY' = mouseY
              /\ autoRotate' = autoRotate
              /\ currentPattern' = currentPattern
              /\ particles' = particles
              /\ deviceProfile' = deviceProfile /\ frameInterval' = frameInterval
              /\ << width, height, canvasWidth, canvasHeight >>' =
                     << width, height, canvasWidth, canvasHeight >>
              /\ drawn' = {}
              /\ pc' = pc
              /\ rafPending'
      ]_vars

\* a skipped callback after frames of the particle scene, with a pool, a
\* moved pointer and a clock that have something to lose
C19_Witness ==
    /\ script = "fractal" /\ outcome = "skipped" /\ rafPending
    /\ currentPattern = 3 /\ particles > 0 /\ time > 0 /\ ~autoRotate

\* ---------------------------------------------------------------------------
\* C20 -- the frame counter and the clock advance in lockstep: between
\* callbacks the clock equals frameCount times 0.03, the frame counter moves
\* by one on an accepted frame only, and the observed fps changes only on an
\* accepted frame whose counter is a multiple of 60.
C20_Lockstep ==
    [][ script = "fractal" =>
           /\ time' = 3 * frameCount'
           /\ frameCount' \in {frameCount, frameCount + 1}
           /\ (frameCount' = frameCount + 1) =>
                  (callbacks' = callbacks + 1 /\ now' - lastFrameTime >= frameInterval)
           /\ (actualFPS' # actualFPS) =>
                  (frameCount' = frameCount + 1 /\ frameCount' % 60 = 0)
      ]_vars

==========================================================================
